---- MODULE Spec2Model ----
(***************************************************************************)
(* A model of tagsclass.py: the Tag / TopLevelTag / HTML classes, their    *)
(* construction, the '+=' composition, the recursive line renderer, the    *)
(* context-manager protocol and HTML.flush.                                *)
(*                                                                         *)
(* Python strings are TLA+ strings; a Python value whose type the code     *)
(* inspects is a record [type |-> ..., ...].  A node is identified by its  *)
(* position in the sequence `nodes` (its object identity).                 *)
(***************************************************************************)
EXTENDS Integers, Sequences, FiniteSets, TLC

VARIABLES
    nodes,      \* the heap: every Tag object constructed so far
    ret,        \* the last call: its name, receiver, arguments and result
    scopes,     \* the stack of open `with` blocks (innermost last)
    exc,        \* the exception that is propagating, or "none"
    fs,         \* the file system: path -> [exists, data]
    console     \* the text of the last write to the standard output

vars == <<nodes, ret, scopes, exc, fs, console>>

-----------------------------------------------------------------------------
(* Python values *)

None == [type |-> "NoneType"]
PyStr(s) == [type |-> "str", val |-> s]
PyTuple(s) == [type |-> "tuple", val |-> s]
PyList(s) == [type |-> "list", val |-> s]
PySet(s) == [type |-> "set", val |-> s]

\* The classes of the module and their bases (class Tag, TopLevelTag(Tag), HTML(Tag)).
TagFamily == {"Tag", "TopLevelTag", "HTML"}

\* A reference to the node at position i (the object itself).
Ref(ns, i) == [type |-> ns[i].cls, ref |-> i]

\* isinstance(other, Tag)
IsInstanceTag(other) == other.type \in TagFamily

\* Truth value of a Python value, bool(v), for the types the model passes.
Truthy(v) ==
    CASE v.type = "NoneType" -> FALSE
      [] v.type = "str" -> v.val # ""
      [] v.type \in {"tuple", "list", "set"} -> Len(v.val) > 0
      [] OTHER -> TRUE

-----------------------------------------------------------------------------
(* str methods *)

\* n * s for an int n and a str s (the empty string when n <= 0).
RECURSIVE Rep(_, _)
Rep(s, n) == IF n <= 0 THEN "" ELSE s \o Rep(s, n - 1)

\* s.replace(old, new) for a one-character old.
RECURSIVE Replace(_, _, _)
Replace(s, old, new) ==
    IF Len(s) = 0 THEN ""
    ELSE (IF SubSeq(s, 1, 1) = old THEN new ELSE SubSeq(s, 1, 1))
            \o Replace(SubSeq(s, 2, Len(s)), old, new)

\* sep.join(parts)
RECURSIVE Join(_, _)
Join(sep, parts) ==
    IF Len(parts) = 0 THEN ""
    ELSE IF Len(parts) = 1 THEN parts[1]
    ELSE parts[1] \o sep \o Join(sep, Tail(parts))

-----------------------------------------------------------------------------
(* dict: an insertion-ordered mapping, kept as a sequence of <<key, value>> *)

DictKeys(d) == {d[i][1] : i \in 1..Len(d)}

\* d[k] = v: a present key keeps its position and takes the new value,
\* a new key goes last.
DictSet(d, k, v) ==
    IF k \in DictKeys(d)
    THEN [i \in 1..Len(d) |-> IF d[i][1] = k THEN <<k, v>> ELSE d[i]]
    ELSE Append(d, <<k, v>>)

-----------------------------------------------------------------------------
(* Tag.__init__ *)

DefaultIndent == Rep(" ", 4)

\* The attributes after `if klass:` ... (lines 20-24).
KlassAttributes(klass) ==
    IF Truthy(klass)
    THEN IF klass.type = "tuple" \/ klass.type = "list"
         THEN DictSet(<<>>, "class", Join(" ", klass.val))
         ELSE IF klass.type = "str"
              THEN DictSet(<<>>, "class", klass.val)
              ELSE <<>>
    ELSE <<>>

\* attr.replace('_', '-', 1): only the first underscore.
RECURSIVE ReplaceFirst(_, _, _)
ReplaceFirst(s, old, new) ==
    IF Len(s) = 0 THEN ""
    ELSE IF SubSeq(s, 1, 1) = old THEN new \o SubSeq(s, 2, Len(s))
    ELSE SubSeq(s, 1, 1) \o ReplaceFirst(SubSeq(s, 2, Len(s)), old, new)

AttrKeyFirstOnly(attr) == ReplaceFirst(attr, "_", "-")

\* The normalised key under which a keyword argument is stored (line 28).
AttrKey(attr) == Replace(attr, "_", "-")

\* for attr, value in kwargs.items(): self.attributes[...] = value
RECURSIVE StoreKwargs(_, _)
StoreKwargs(attributes, kwargs) ==
    IF Len(kwargs) = 0 THEN attributes
    ELSE StoreKwargs(DictSet(attributes, AttrKey(kwargs[1][1]), kwargs[1][2]),
                     Tail(kwargs))

\* The object Tag.__init__ leaves behind; cls is the class being instantiated
\* and output the field HTML.__init__ sets before delegating.
Tag__init__(cls, tag, klass, is_single, kwargs, output) ==
    [cls        |-> cls,
     tag        |-> tag,
     attributes |-> StoreKwargs(KlassAttributes(klass), kwargs),
     is_single  |-> is_single,
     children   |-> <<>>,
     text       |-> "",
     indent     |-> DefaultIndent,
     output     |-> output]

\* TopLevelTag.__init__(tag, **kwargs): klass and is_single, when given, travel
\* in kwargs and bind to Tag.__init__'s parameters of those names.
TopLevelTag__init__(tag, klass, is_single, kwargs) ==
    Tag__init__("TopLevelTag", tag, klass, is_single, kwargs, None)

\* HTML.__init__(out_filepath)
HTML__init__(out_filepath) ==
    Tag__init__("HTML", "html", PyTuple(<<>>), FALSE, <<>>, out_filepath)

-----------------------------------------------------------------------------
(* Tag.get_lines and Tag.__str__ *)

\* attrs = ' '.join('%s="%s"' % (attr, value) ...)
AttrsString(attributes) ==
    Join(" ", [i \in 1..Len(attributes) |->
                  attributes[i][1] \o "=\"" \o attributes[i][2] \o "\""])

\* {" " + attrs if attrs else ""}
AttrsPart(attrs) == IF attrs # "" THEN " " \o attrs ELSE ""

\* '<%s %s/>' % (self.tag, attrs): the space is always written.
SingleTagLineSpaced(offset, tag, attrs) == offset \o "<" \o tag \o " " \o attrs \o "/>"

\* f'<{self.tag}{" " + attrs if attrs else ""}/>' after the offset (line 62)
SingleTagLine(offset, tag, attrs) == offset \o "<" \o tag \o AttrsPart(attrs) \o "/>"

\* f'<{self.tag}{" " + attrs if attrs else ""}>' (line 67)
OpeningLine(tag, attrs) == "<" \o tag \o AttrsPart(attrs) \o ">"

\* f'</{self.tag}>' (line 76)
ClosingLine(tag) == "</" \o tag \o ">"

\* A comprehension that drops the indent.
PrefixNone(prefix, lines) == lines

\* [indent + line for line in lines] (lines 74 and 79)
PrefixAll(prefix, lines) == [k \in 1..Len(lines) |-> prefix \o lines[k]]

\* A recursive call inner.get_lines() that passes no indent.
ChildOwnIndent(ns, child, indent) == None

\* The indent argument of the recursive call inner.get_lines(indent) (line 74):
\* the caller's effective indent, not the child's own.
ChildIndentArg(ns, child, indent) == PyStr(indent)

Raised(e) == [exc |-> e, lines |-> <<>>]
Returned(lines) == [exc |-> "none", lines |-> lines]

\* self.get_lines(indent, set_offset) on the heap ns.  `active` holds the
\* nodes whose get_lines call is on the stack: re-entering one of them is a
\* recursion that never returns, which Python ends with RecursionError.
RECURSIVE GetLinesRec(_, _, _, _, _)
RECURSIVE ChildLines(_, _, _, _, _)
\* the loop `for inner in self.children: lines += [indent + line ...]`
\* from child k on; the first exception a child raises ends the loop.
ChildLines(ns, children, k, indent, active) ==
    IF k > Len(children) THEN Returned(<<>>)
    ELSE LET inner == GetLinesRec(ns, children[k],
                                  ChildIndentArg(ns, children[k], indent), 0, active)
         IN  IF inner.exc # "none" THEN inner
             ELSE LET rest == ChildLines(ns, children, k + 1, indent, active)
                  IN  IF rest.exc # "none" THEN rest
                      ELSE Returned(PrefixAll(indent, inner.lines) \o rest.lines)

GetLinesRec(ns, i, indentArg, set_offset, active) ==
    LET self   == ns[i]
        indent == IF indentArg = None THEN self.indent ELSE indentArg.val
        attrs  == AttrsString(self.attributes)
    IN  IF i \in active THEN Raised("RecursionError")
        ELSE IF self.is_single
        THEN Returned(<<SingleTagLine(Rep(indent, set_offset), self.tag, attrs)>>)
        ELSE LET open  == <<OpeningLine(self.tag, attrs)>>
                 text  == IF self.text # "" THEN <<indent \o self.text>> ELSE <<>>
                 inner == ChildLines(ns, self.children, 1, indent, active \cup {i})
                 close == <<ClosingLine(self.tag)>>
                 lines == open \o text \o inner.lines \o close
             IN  IF inner.exc # "none" THEN inner
                 ELSE IF set_offset # 0
                      THEN Returned(PrefixAll(Rep(indent, set_offset), lines))
                      ELSE Returned(lines)

get_lines(ns, i, indentArg, set_offset) ==
    GetLinesRec(ns, i, indentArg, set_offset, {})

\* str(self): '\n'.join(self.get_lines())
Tag__str__(ns, i) ==
    LET r == get_lines(ns, i, None, 0)
    IN  IF r.exc # "none" THEN [exc |-> r.exc, text |-> ""]
        ELSE [exc |-> "none", text |-> Join("\n", r.lines)]

\* A rendering that stores the indent it was given in the node.
HeapStoringIndent(ns, i, indentArg) ==
    IF indentArg = None THEN ns ELSE [ns EXCEPT ![i].indent = indentArg.val]

\* What a rendering call leaves of the heap: get_lines assigns only to its
\* locals (indent, attrs, lines), never to a field of self or of a child.
HeapAfterRender(ns, i, indentArg) == ns

-----------------------------------------------------------------------------
(* Tag.__iadd__ *)

\* The check `type(other) is Tag`, which the subclasses fail.
Tag__iadd__ExactType(ns, s, other) ==
    IF other.type = "Tag"
    THEN [ns EXCEPT ![s].children = Append(@, other.ref)]
    ELSE ns

\* The heap after self.__iadd__(other): line 38-39.
Tag__iadd__(ns, s, other) ==
    IF IsInstanceTag(other)
    THEN [ns EXCEPT ![s].children = Append(@, other.ref)]
    ELSE ns

\* A `return self` inside the if: a refused operand returns None.
Tag__iadd__resultInIf(ns, s, other) == IF IsInstanceTag(other) THEN Ref(ns, s) ELSE None

\* The value self.__iadd__(other) returns: line 40.
Tag__iadd__result(ns, s, other) == Ref(ns, s)

-----------------------------------------------------------------------------
(* HTML.flush, Tag.__enter__, Tag.__exit__, HTML.__exit__ *)

\* The outcomes of the I/O of one flush to a file: open() may fail, and
\* fp.write() may fail after open() truncated the file.
IoOutcomes == {"ok", "open_fails", "write_fails"}

\* A write that ends every line, the last one too, with a newline.
FileTextNewlineEach(lines) == Join("", [k \in 1..Len(lines) |-> lines[k] \o "\n"])

\* The text fp.write() is given: '\n'.join(self.get_lines(indent = self.indent))
FileText(lines) == Join("\n", lines)

\* print(self): str(self) followed by the newline print adds.
PrintText(text) == text \o "\n"

\* self.flush() on heap ns with the files and console as given; io is the
\* outcome of the file I/O.  calls counts this invocation.
HTML_flush(ns, s, files, con, io) ==
    IF ns[s].output.type # "str"
    THEN LET r == Tag__str__(ns, s)
         IN  IF r.exc # "none"
             THEN [calls |-> 1, fs |-> files, console |-> con, exc |-> r.exc]
             ELSE [calls |-> 1, fs |-> files, console |-> PrintText(r.text), exc |-> "none"]
    ELSE LET path == ns[s].output.val
             r    == get_lines(ns, s, PyStr(ns[s].indent), 0)
             cut  == [files EXCEPT ![path] = [exists |-> TRUE, data |-> ""]]
         IN  IF io = "open_fails"
             THEN [calls |-> 1, fs |-> files, console |-> con, exc |-> "OSError"]
             ELSE IF r.exc # "none"
             THEN [calls |-> 1, fs |-> cut, console |-> con, exc |-> r.exc]
             ELSE IF io = "write_fails"
             THEN [calls |-> 1, fs |-> cut, console |-> con, exc |-> "OSError"]
             ELSE [calls |-> 1,
                   fs |-> [files EXCEPT ![path] = [exists |-> TRUE, data |-> FileText(r.lines)]],
                   console |-> con, exc |-> "none"]

\* Tag.__enter__: return self
Tag__enter__(ns, s) == Ref(ns, s)

\* An __exit__ that reports the exception as handled.
Tag__exit__Suppressing(ns, s, files, con, io) ==
    [flushed |-> 0, fs |-> files, console |-> con, raised |-> "none",
     returned |-> [type |-> "bool", val |-> TRUE]]

\* Tag.__exit__: pass.  It calls nothing and returns None.
Tag__exit__(ns, s, files, con, io) ==
    [flushed |-> 0, fs |-> files, console |-> con, raised |-> "none", returned |-> None]

\* An HTML that inherits Tag.__exit__.
HTML__exit__Inherited(ns, s, files, con, io) ==
    [flushed |-> 0, fs |-> files, console |-> con, raised |-> "none", returned |-> None]

\* HTML.__exit__: self.flush().  It returns None unless flush raises.
HTML__exit__(ns, s, files, con, io) ==
    LET f == HTML_flush(ns, s, files, con, io)
    IN  [flushed |-> f.calls, fs |-> f.fs, console |-> f.console, raised |-> f.exc,
         returned |-> None]

\* The __exit__ the class of node s resolves to.
Exit__(ns, s, files, con, io) ==
    IF ns[s].cls = "HTML" THEN HTML__exit__(ns, s, files, con, io)
    ELSE Tag__exit__(ns, s, files, con, io)

\* Whether the I/O outcome io can occur in a flush of node s: only a flush to
\* a file does file I/O.
IoApplies(ns, s, io) == ns[s].output.type = "str" \/ io = "ok"

-----------------------------------------------------------------------------
(* The size of a state, which the bounds of the specifications cap *)

RECURSIVE Weight(_)
Weight(ns) ==
    IF Len(ns) = 0 THEN 0
    ELSE 1 + Len(ns[1].attributes) + Len(ns[1].children)
           + (IF ns[1].is_single THEN 1 ELSE 0)
           + (IF ns[1].text # "" THEN 1 ELSE 0)
           + (IF ns[1].indent # DefaultIndent THEN 1 ELSE 0)
           + Weight(Tail(ns))

Size == Weight(nodes) + Len(scopes)

\* The nodes reachable from node i through child sequences, i included.
RECURSIVE Reach(_, _, _)
Reach(ns, frontier, seen) ==
    IF frontier \subseteq seen THEN seen
    ELSE LET new == frontier \ seen
         IN  Reach(ns, UNION {{ns[j].children[k] : k \in 1..Len(ns[j].children)} : j \in new},
                   seen \cup new)

Descendants(ns, i) == Reach(ns, {i}, {})

Owned(ns, o) == \E j \in 1..Len(ns) : \E k \in 1..Len(ns[j].children) : ns[j].children[k] = o

\* The caller's discipline of a tree: a node is given to one parent, once,
\* and never to itself or to one of its own descendants.
KeepsTree(ns, s, o) == ~Owned(ns, o) /\ s \notin Descendants(ns, o)

NoCall == [op |-> "none", self |-> 0, arg |-> None, val |-> None]

Ids == 1..Len(nodes)

-----------------------------------------------------------------------------
(* Operations of the caller's program *)

\* Tag(tag, klass, is_single, **kwargs)
NewTag(tag, klass, is_single, kwargs) ==
    /\ exc = "none"
    /\ nodes' = Append(nodes, Tag__init__("Tag", tag, klass, is_single, kwargs, None))
    /\ ret' = [op |-> "Tag", self |-> Len(nodes) + 1,
               arg |-> [tag |-> tag, klass |-> klass, is_single |-> is_single,
                        kwargs |-> kwargs],
               val |-> None]
    /\ UNCHANGED <<scopes, exc, fs, console>>

\* TopLevelTag(tag, **kwargs)
NewTopLevelTag(tag, klass, is_single, kwargs) ==
    /\ exc = "none"
    /\ nodes' = Append(nodes, TopLevelTag__init__(tag, klass, is_single, kwargs))
    /\ ret' = [op |-> "TopLevelTag", self |-> Len(nodes) + 1,
               arg |-> [tag |-> tag, klass |-> klass, is_single |-> is_single,
                        kwargs |-> kwargs],
               val |-> None]
    /\ UNCHANGED <<scopes, exc, fs, console>>

\* HTML(out_filepath)
NewHTML(out_filepath) ==
    /\ exc = "none"
    /\ nodes' = Append(nodes, HTML__init__(out_filepath))
    /\ ret' = [op |-> "HTML", self |-> Len(nodes) + 1, arg |-> out_filepath,
               val |-> None]
    /\ UNCHANGED <<scopes, exc, fs, console>>

\* self += other
IAdd(s, other) ==
    /\ exc = "none"
    /\ s \in Ids
    /\ nodes' = Tag__iadd__(nodes, s, other)
    /\ ret' = [op |-> "__iadd__", self |-> s, arg |-> other,
               val |-> Tag__iadd__result(nodes, s, other)]
    /\ UNCHANGED <<scopes, exc, fs, console>>

\* self.text = t
SetText(s, t) ==
    /\ exc = "none"
    /\ s \in Ids
    /\ nodes' = [nodes EXCEPT ![s].text = t]
    /\ ret' = NoCall
    /\ UNCHANGED <<scopes, exc, fs, console>>

\* self.indent = ind
SetIndent(s, ind) ==
    /\ exc = "none"
    /\ s \in Ids
    /\ nodes' = [nodes EXCEPT ![s].indent = ind]
    /\ ret' = NoCall
    /\ UNCHANGED <<scopes, exc, fs, console>>

\* self.get_lines(indent, set_offset)
GetLines(s, indentArg, set_offset) ==
    /\ exc = "none"
    /\ s \in Ids
    /\ LET r == get_lines(nodes, s, indentArg, set_offset)
       IN  /\ nodes' = HeapAfterRender(nodes, s, indentArg)
           /\ ret' = [op |-> "get_lines", self |-> s,
                      arg |-> [indent |-> indentArg, set_offset |-> set_offset],
                      val |-> r]
           /\ exc' = r.exc
    /\ UNCHANGED <<scopes, fs, console>>

\* str(self)
Str(s) ==
    /\ exc = "none"
    /\ s \in Ids
    /\ LET r == Tag__str__(nodes, s)
       IN  /\ nodes' = HeapAfterRender(nodes, s, None)
           /\ ret' = [op |-> "__str__", self |-> s, arg |-> None, val |-> r]
           /\ exc' = r.exc
    /\ UNCHANGED <<scopes, fs, console>>

\* self.flush(), called by the program
Flush(s, io) ==
    /\ exc = "none"
    /\ s \in Ids
    /\ nodes[s].cls = "HTML"
    /\ IoApplies(nodes, s, io)
    /\ LET f == HTML_flush(nodes, s, fs, console, io)
       IN  /\ fs' = f.fs
           /\ console' = f.console
           /\ exc' = f.exc
           /\ ret' = [op |-> "flush", self |-> s, arg |-> PyStr(io),
                      val |-> [flushed |-> f.calls, raised |-> f.exc, returned |-> None]]
    /\ UNCHANGED <<nodes, scopes>>

\* with self as x: the block is entered
Enter(s) ==
    /\ exc = "none"
    /\ s \in Ids
    /\ scopes' = Append(scopes, s)
    /\ ret' = [op |-> "__enter__", self |-> s, arg |-> None, val |-> Tag__enter__(nodes, s)]
    /\ UNCHANGED <<nodes, exc, fs, console>>

\* A statement of the body of the innermost block raises.
Raise ==
    /\ exc = "none"
    /\ scopes # <<>>
    /\ exc' = "BodyError"
    /\ ret' = [op |-> "raise", self |-> 0, arg |-> None, val |-> None]
    /\ UNCHANGED <<nodes, scopes, fs, console>>

\* The innermost block is left, normally or by the propagating exception:
\* the with statement calls __exit__, and the exception goes on unless
\* __exit__ returns a true value; an exception __exit__ raises replaces it.
Exit(io) ==
    /\ scopes # <<>>
    /\ LET s == scopes[Len(scopes)]
           r == Exit__(nodes, s, fs, console, io)
       IN  /\ IoApplies(nodes, s, io)
           /\ scopes' = SubSeq(scopes, 1, Len(scopes) - 1)
           /\ fs' = r.fs
           /\ console' = r.console
           /\ exc' = IF r.raised # "none" THEN r.raised
                     ELSE IF Truthy(r.returned) THEN "none" ELSE exc
           /\ ret' = [op |-> "__exit__", self |-> s, arg |-> [exc |-> exc, io |-> io],
                      val |-> [flushed |-> r.flushed, raised |-> r.raised,
                               returned |-> r.returned]]
    /\ UNCHANGED nodes

-----------------------------------------------------------------------------
(* Bounds and input sets *)

MaxNodes == 3
MaxSize == 6

Paths == {"out.html"}
NoFile == [exists |-> FALSE, data |-> ""]

Init ==
    /\ nodes = <<>>
    /\ ret = NoCall
    /\ scopes = <<>>
    /\ exc = "none"
    /\ fs = [p \in Paths |-> NoFile]
    /\ console = ""

NoKlass == PyTuple(<<>>)

\* The constructor calls the tree specification draws from.
TreeCtors ==
    { <<"p", NoKlass, FALSE, <<>>>>,
      <<"div", PyStr("box"), FALSE, <<>>>>,
      <<"img", NoKlass, TRUE, << <<"src", "/icon.png">> >> >>,
      <<"br", NoKlass, TRUE, <<>>>> }

Texts == {"hi"}
Indents == {"--"}
IndentArgs == {None, PyStr("  ")}
Offsets == {0, 1}

Fits(k) == Size + k <= MaxSize
Room == Len(nodes) < MaxNodes

Next ==
    \/ \E c \in TreeCtors : Fits(Weight(<<Tag__init__("Tag", c[1], c[2], c[3], c[4], None)>>))
                              /\ Room /\ NewTag(c[1], c[2], c[3], c[4])
    \/ \E s \in Ids, o \in Ids : Fits(1) /\ KeepsTree(nodes, s, o) /\ IAdd(s, Ref(nodes, o))
    \/ \E s \in Ids, t \in Texts : (t # "" /\ nodes[s].text = "" => Fits(1)) /\ SetText(s, t)
    \/ \E s \in Ids, i \in Indents : (nodes[s].indent = DefaultIndent => Fits(1)) /\ SetIndent(s, i)
    \/ \E s \in Ids, a \in IndentArgs : GetLines(s, a, 0)
    \/ \E s \in Ids : Str(s)

Spec == Init /\ [][Next]_vars

\* The composition specification: nodes of the three classes, any operand,
\* any graph.
NonTags == {PyStr("text"), None}

MaxAppend == 5
FitsAppend == Size < MaxAppend

NextAppend ==
    \/ Room /\ FitsAppend /\ NewTag("p", NoKlass, FALSE, <<>>)
    \/ Room /\ FitsAppend /\ NewTopLevelTag("body", NoKlass, FALSE, <<>>)
    \/ Room /\ FitsAppend /\ NewHTML(None)
    \/ \E s \in Ids, o \in Ids : FitsAppend /\ IAdd(s, Ref(nodes, o))
    \/ \E s \in Ids, v \in NonTags : IAdd(s, v)

SpecAppend == Init /\ [][NextAppend]_vars

\* The construction specification: one constructor call with every shape of
\* class specification and keyword arguments, then its rendering.
MaxCtorNodes == 1

Klasses ==
    { NoKlass, PyTuple(<<"a", "b">>), PyList(<<"a">>), PyStr("a b"), PyStr(""),
      PySet(<<"a">>) }

Kwargs ==
    { <<>>,
      << <<"id", "lead">> >>,
      << <<"data_a_b", "7">> >>,
      << <<"id", "lead">>, <<"data_a_b", "7">> >>,
      << <<"data_a_b", "7">>, <<"id", "lead">> >> }

NextCtor ==
    \/ \E k \in Klasses, single \in BOOLEAN, kw \in Kwargs :
          Len(nodes) < MaxCtorNodes /\ NewTag("div", k, single, kw)
    \/ \E k \in Klasses, kw \in Kwargs :
          Len(nodes) < MaxCtorNodes /\ NewTopLevelTag("body", k, FALSE, kw)
    \/ \E s \in Ids, a \in IndentArgs, k \in Offsets : GetLines(s, a, k)
    \/ \E s \in Ids : Str(s)

SpecCtor == Init /\ [][NextCtor]_vars

\* The scope specification: documents with each kind of output target,
\* with blocks, exceptions in their bodies, and flush.
Outputs == {None, PyStr("out.html")}

MaxScope == 4
FitsScope == Size < MaxScope

InitScope ==
    /\ nodes = <<>>
    /\ ret = NoCall
    /\ scopes = <<>>
    /\ exc = "none"
    /\ fs = [p \in Paths |-> [exists |-> TRUE, data |-> "old"]]
    /\ console = ""

NextScope ==
    \/ \E out \in Outputs : Room /\ FitsScope /\ NewHTML(out)
    \/ Room /\ FitsScope /\ NewTag("p", NoKlass, FALSE, <<>>)
    \/ Room /\ FitsScope /\ NewTopLevelTag("body", NoKlass, FALSE, <<>>)
    \/ \E s \in Ids, o \in Ids : FitsScope /\ KeepsTree(nodes, s, o) /\ IAdd(s, Ref(nodes, o))
    \/ \E s \in Ids : FitsScope /\ Enter(s)
    \/ Raise
    \/ \E io \in IoOutcomes : Exit(io)
    \/ \E s \in Ids, io \in IoOutcomes : Flush(s, io)

SpecScope == InitScope /\ [][NextScope]_vars

-----------------------------------------------------------------------------
(* What the renderer is expected to produce, stated from the shape of the   *)
(* tree with a depth counter                                                *)

RECURSIVE PairsText(_)
PairsText(attributes) ==
    IF Len(attributes) = 0 THEN ""
    ELSE attributes[1][1] \o "=\"" \o attributes[1][2] \o "\""
            \o (IF Len(attributes) > 1 THEN " " \o PairsText(Tail(attributes)) ELSE "")

ExpectedSingle(node) ==
    IF Len(node.attributes) = 0 THEN "<" \o node.tag \o "/>"
    ELSE "<" \o node.tag \o " " \o PairsText(node.attributes) \o "/>"

ExpectedOpen(node) ==
    IF Len(node.attributes) = 0 THEN "<" \o node.tag \o ">"
    ELSE "<" \o node.tag \o " " \o PairsText(node.attributes) \o ">"

\* The indent unit node j uses for its own block: `own` selects the node's
\* own indent field, otherwise the unit of the rendering call.
UnitOf(ns, j, unit, own) == IF own THEN ns[j].indent ELSE unit

\* The lines of node i whose own lines carry the prefix `lead`.
RECURSIVE BlockLines(_, _, _, _, _)
RECURSIVE BlocksFrom(_, _, _, _, _, _)
BlocksFrom(ns, children, k, unit, own, lead) ==
    IF k > Len(children) THEN <<>>
    ELSE BlockLines(ns, children[k], unit, own, lead)
            \o BlocksFrom(ns, children, k + 1, unit, own, lead)

BlockLines(ns, i, unit, own, lead) ==
    IF ns[i].is_single THEN <<lead \o ExpectedSingle(ns[i])>>
    ELSE LET u == UnitOf(ns, i, unit, own)
         IN  <<lead \o ExpectedOpen(ns[i])>>
                \o (IF ns[i].text = "" THEN <<>> ELSE <<lead \o u \o ns[i].text>>)
                \o BlocksFrom(ns, ns[i].children, 1, unit, own, lead \o u)
                \o <<lead \o "</" \o ns[i].tag \o ">">>

\* Every line of descendants at depth d carries d copies of the call's unit.
DepthLines(ns, i, unit) == BlockLines(ns, i, unit, FALSE, "")

\* Every node indents its own children by its own indent field.
OwnIndentLines(ns, i) == BlockLines(ns, i, ns[i].indent, TRUE, "")

RenderOps == {"get_lines", "__str__"}
RetIsRender == ret.op \in RenderOps
RetNode == nodes[ret.self]
RetUnit ==
    IF ret.op = "get_lines" /\ ret.arg.indent # None
    THEN ret.arg.indent.val ELSE RetNode.indent
RetOffset == IF ret.op = "get_lines" THEN ret.arg.set_offset ELSE 0
\* The rendering as one text, whichever of the two calls made it.
RetText == IF ret.op = "__str__" THEN ret.val.text ELSE Join("\n", ret.val.lines)
\* A rendering with no indent argument: the node's own indent is the unit.
RetIsOwnRender ==
    \/ ret.op = "__str__"
    \/ ret.op = "get_lines" /\ ret.arg.indent = None /\ ret.arg.set_offset = 0

StartsWith(line, prefix) ==
    Len(line) >= Len(prefix) /\ SubSeq(line, 1, Len(prefix)) = prefix

-----------------------------------------------------------------------------
(* Claims on the tree specification *)

\* C3: a rendering call (get_lines or __str__) leaves every field of every
\* node, the files and the console as they were, and a rendering repeated
\* with nothing in between returns the output of the first.
C3_RenderIsPure ==
    [][/\ ret'.op \in RenderOps => nodes' = nodes /\ fs' = fs /\ console' = console
       /\ (/\ RetIsRender /\ ret'.op = ret.op /\ ret'.self = ret.self
           /\ ret'.arg = ret.arg) => ret'.val = ret.val]_vars

C3_Witness ==
    /\ ret.op = "get_lines" /\ ret.arg.indent # None
    /\ ~RetNode.is_single /\ RetNode.text # ""
    /\ Len(RetNode.children) > 0
    /\ RetNode.indent # DefaultIndent

\* C6: a single tag renders as the one line <name [attrs]/>, with a space
\* before the attributes only when it has any, whatever children were
\* appended to it and whatever text was assigned to it, and raises nothing.
C6_SingleTagOneLine ==
    RetIsRender /\ RetNode.is_single /\ RetOffset = 0 =>
        /\ ret.val.exc = "none"
        /\ RetText = ExpectedSingle(RetNode)
        /\ ret.op = "get_lines" => ret.val.lines = <<ExpectedSingle(RetNode)>>

C6_Witness ==
    /\ ret.op = "get_lines" /\ RetNode.is_single
    /\ Len(RetNode.children) > 0 /\ RetNode.text # ""
    /\ ret.val.lines = <<"<br/>">>

\* C7: get_lines of a paired tag is the opening line, the text line (unit +
\* text) iff the text is non-empty, every child's block in child order, and
\* the closing line; a line of a descendant at depth d carries d copies of
\* the call's indent unit.
C7_PairedTagLines ==
    ret.op = "get_lines" /\ ~RetNode.is_single /\ RetOffset = 0 =>
        /\ ret.val.exc = "none"
        /\ ret.val.lines = DepthLines(nodes, ret.self, RetUnit)

C7_Witness ==
    /\ ret.op = "get_lines" /\ ret.arg.indent = PyStr("  ")
    /\ ret.val.lines = <<"<p>", "  <p>", "    hi", "  </p>", "</p>">>

\* C9 as stated: in every rendering, each node's block is indented by the
\* node's own indent field, also below the node the rendering started at.
C9_OwnIndentEverywhere ==
    RetIsOwnRender /\ ret.val.exc = "none" =>
        RetText = Join("\n", OwnIndentLines(nodes, ret.self))

\* The heap with the indent field of every node but i back at the default.
EraseOtherIndents(ns, i) ==
    [j \in 1..Len(ns) |-> IF j = i THEN ns[j] ELSE [ns[j] EXCEPT !.indent = DefaultIndent]]

\* C9 amended: a node's own indent is the unit of a rendering that starts at
\* that node with no indent argument, and it is the unit at every depth; the
\* indent field of a node below the starting node has no effect.
C9_StartingNodeIndentOnly ==
    RetIsOwnRender /\ ret.val.exc = "none" =>
        /\ RetText = Join("\n", get_lines(EraseOtherIndents(nodes, ret.self),
                                          ret.self, None, 0).lines)
        /\ RetText = Join("\n", DepthLines(nodes, ret.self, RetNode.indent))

\* An inner node with its own indent and a text below a starting node with
\* another indent.
C9_Witness ==
    /\ RetIsOwnRender /\ ret.val.exc = "none"
    /\ \E k \in 1..Len(RetNode.children) :
          LET c == nodes[RetNode.children[k]]
          IN  ~c.is_single /\ c.indent # RetNode.indent /\ c.text # ""

-----------------------------------------------------------------------------
(* Claims on the composition specification *)

RetIsIAdd == ret.op = "__iadd__"

\* C4: self += v for a v that is no Tag, TopLevelTag or HTML raises nothing,
\* leaves the child sequence and every other field of every node as they
\* were, and returns self.
C4_NonTagAppendIgnored ==
    [][ret'.op = "__iadd__" /\ ret'.arg.type \notin TagFamily =>
          /\ nodes' = nodes
          /\ exc' = "none"
          /\ ret'.val = [type |-> nodes[ret'.self].cls, ref |-> ret'.self]]_vars

C4_Witness ==
    /\ RetIsIAdd /\ ret.arg = PyStr("text")
    /\ Len(nodes[ret.self].children) > 0
    /\ ret.val.ref = ret.self

\* C5: self += other for a Tag, TopLevelTag or HTML makes other the new last
\* child of self, keeps the earlier children where they were, changes no
\* other node, and returns self.
C5_TagAppendedLast ==
    [][ret'.op = "__iadd__" /\ ret'.arg.type \in TagFamily =>
          LET s   == ret'.self
              old == nodes[s].children
              new == nodes'[s].children
          IN  /\ Len(nodes') = Len(nodes)
              /\ Len(new) = Len(old) + 1
              /\ new[Len(new)] = ret'.arg.ref
              /\ \A k \in 1..Len(old) : new[k] = old[k]
              /\ \A j \in 1..Len(nodes) : j # s => nodes'[j] = nodes[j]
              /\ [nodes'[s] EXCEPT !.children = old] = nodes[s]
              /\ ret'.val = [type |-> nodes[s].cls, ref |-> s]]_vars

\* Two children of different classes under one parent, the second one a
\* TopLevelTag appended after a Tag.
C5_Witness ==
    /\ RetIsIAdd /\ ret.arg.type = "TopLevelTag"
    /\ LET c == nodes[ret.self].children
       IN  /\ Len(c) = 2 /\ c[2] = ret.arg.ref
           /\ nodes[c[1]].cls = "Tag"

-----------------------------------------------------------------------------
(* Claims on the construction specification *)

RetIsCtor == ret.op \in {"Tag", "TopLevelTag"}

\* name with every underscore a hyphen: same length, same characters but
\* for '_' which became '-'.
IsHyphenated(key, name) ==
    /\ Len(key) = Len(name)
    /\ \A k \in 1..Len(name) :
          SubSeq(key, k, k) = (IF SubSeq(name, k, k) = "_" THEN "-" ELSE SubSeq(name, k, k))

\* The class value of a class specification: the string itself, or the
\* tokens of the sequence with one space between neighbours.
RECURSIVE SpaceJoined(_)
SpaceJoined(tokens) ==
    IF Len(tokens) = 0 THEN ""
    ELSE IF Len(tokens) = 1 THEN tokens[1]
    ELSE SpaceJoined(SubSeq(tokens, 1, Len(tokens) - 1)) \o " " \o tokens[Len(tokens)]

ClassSupplied(klass) ==
    \/ klass.type = "str" /\ klass.val # ""
    \/ klass.type \in {"tuple", "list"} /\ Len(klass.val) > 0

ClassValue(klass) == IF klass.type = "str" THEN klass.val ELSE SpaceJoined(klass.val)

-----------------------------------------------------------------------------
(* Claims on the scope specification *)

ScopeLeft == Len(scopes') < Len(scopes)
Innermost == scopes[Len(scopes)]

\* C1: a with block of an HTML is left only through __exit__, which calls
\* flush exactly once whether or not an exception is propagating; the
\* exception goes on propagating afterwards (the one of the body, unless
\* flush itself raised), and a flush that did not raise has written the
\* rendering to the document's sink.
C1_ExitFlushesOnce ==
    [][ScopeLeft /\ nodes[Innermost].cls = "HTML" =>
          /\ ret'.op = "__exit__" /\ ret'.self = Innermost
          /\ scopes' = SubSeq(scopes, 1, Len(scopes) - 1)
          /\ ret'.val.flushed = 1
          /\ exc # "none" => exc' # "none"
          /\ exc # "none" /\ ret'.val.raised = "none" => exc' = exc
          /\ ret'.val.raised = "none" =>
                IF nodes[Innermost].output.type = "str"
                THEN fs'[nodes[Innermost].output.val].data = Tag__str__(nodes, Innermost).text
                ELSE console' = Tag__str__(nodes, Innermost).text \o "\n"]_vars

\* The block of a document with a child is left by an exception of its
\* body: the document is on the console and the exception still propagates.
C1_Witness ==
    /\ ret.op = "__exit__" /\ nodes[ret.self].cls = "HTML"
    /\ ret.arg.exc = "BodyError" /\ exc = "BodyError"
    /\ ret.val.flushed = 1
    /\ Len(nodes[ret.self].children) > 0
    /\ console = Tag__str__(nodes, ret.self).text \o "\n"

RetIsFileFlush ==
    /\ ret.op \in {"flush", "__exit__"}
    /\ nodes[ret.self].cls = "HTML"
    /\ nodes[ret.self].output.type = "str"
    /\ ret.val.raised = "none"

RetFile == fs[nodes[ret.self].output.val]

C10_PlainScopeIsInert ==
    [][/\ ret'.op = "__enter__" =>
             /\ ret'.val = [type |-> nodes[ret'.self].cls, ref |-> ret'.self]
             /\ nodes' = nodes /\ fs' = fs /\ console' = console /\ exc' = exc
       /\ ScopeLeft /\ nodes[Innermost].cls \in {"Tag", "TopLevelTag"} =>
             /\ ret'.op = "__exit__" /\ ret'.self = Innermost
             /\ ret'.val.flushed = 0
             /\ nodes' = nodes /\ fs' = fs /\ console' = console
             /\ exc' = exc]_vars

\* The block of a TopLevelTag inside the block of a Tag is left by an
\* exception of its body, which still propagates.
C10_Witness ==
    /\ ret.op = "__exit__" /\ nodes[ret.self].cls = "TopLevelTag"
    /\ ret.arg.exc = "BodyError" /\ exc = "BodyError"
    /\ Len(scopes) = 1 /\ nodes[scopes[1]].cls = "Tag"

====
